---- MODULE Spec2Model ----
(***************************************************************************)
(* A model of the rent recommender (recommender.py) and of the chat        *)
(* router in front of it (chatbot.py).                                     *)
(*                                                                         *)
(* Text is modelled at the level of words: a message and a metro name are  *)
(* sequences of tokens, a keyword is a sequence of tokens, and "kw in t"   *)
(* is containment of the keyword as a contiguous run of tokens.  Numbers   *)
(* are integers; a nullable float is <<>> (NaN) or <<v>>; a percentage is  *)
(* <<>> (NaN) or a fraction <<n, d>> with d >= 0, where d = 0 is the       *)
(* infinity that float division by zero produces.                          *)
(***************************************************************************)
EXTENDS Integers, Sequences, FiniteSets, TLC

VARIABLES
    file,         \* the backing CSV: [exists, columns, rows]
    _DATA_CACHE,  \* recommender._DATA_CACHE: None or the loaded table
    readLog,      \* outcome of every pd.read_csv attempt so far, in order
    ret,          \* what the last direct call of the query engine returned
    retCheap,     \* the last result of cheapest_metros, with its arguments
    retExp,       \* the last result of most_expensive_metros, with its arguments
    reply,        \* what the last chat(message) produced, until it is delivered
    threads       \* the frame of every thread that is inside load_data()

vars == <<file, _DATA_CACHE, readLog, ret, retCheap, retExp, reply, threads>>

(***************************************************************************)
(* Bounds of the model.                                                    *)
(***************************************************************************)
MaxRows == 2
MaxLimit == 2
MaxReads == 3
GrowthMaxRows == 1
ChatMaxRows == 1
MaxTokens == 3
BudgetMaxWords == 3
StateMaxWords == 3
CompareMaxRows == 2
NumThreads == 2
ThreadMaxRows == 1

(***************************************************************************)
(* Values.                                                                 *)
(***************************************************************************)
None == [none |-> TRUE]
NoCall == [op |-> "none"]
NoThreads == <<>>
NaN == <<>>
NA == "<NA>"

Num(v) == [kind |-> "num", v |-> v]
EmptyCell == [kind |-> "empty", v |-> 0]
TextCell == [kind |-> "text", v |-> 0]

_DATA_FILENAME == <<"new", "cleaned", "data.csv">>

UnitedStates == <<"United", "States">>

\* str.upper() and str.lower() on the words of the model
Upper(t) ==
    CASE t = "tx" -> "TX"
      [] t = "ca" -> "CA"
      [] t = "ny" -> "NY"
      [] t = "me" -> "ME"
      [] t = "in" -> "IN"
      [] t = "hi" -> "HI"
      [] t = "united" -> "UNITED"
      [] t = "United" -> "UNITED"
      [] t = "states" -> "STATES"
      [] t = "States" -> "STATES"
      [] t = "austin" -> "AUSTIN"
      [] t = "Austin" -> "AUSTIN"
      [] t = "dallas" -> "DALLAS"
      [] t = "Dallas" -> "DALLAS"
      [] t = "Compare" -> "COMPARE"
      [] t = "compare" -> "COMPARE"
      [] t = "and" -> "AND"
      [] t = "up" -> "UP"
      [] t = "yo" -> "YO"
      [] t = "of" -> "OF"
      [] t = "my" -> "MY"
      [] t = "Lakes" -> "LAKES"
      [] t = "lakes" -> "LAKES"
      [] t = "Me" -> "ME"
      [] OTHER -> t

Lower(t) ==
    CASE t = "TX" -> "tx"
      [] t = "CA" -> "ca"
      [] t = "NY" -> "ny"
      [] t = "ME" -> "me"
      [] t = "IN" -> "in"
      [] t = "HI" -> "hi"
      [] t = "United" -> "united"
      [] t = "States" -> "states"
      [] t = "Austin" -> "austin"
      [] t = "Dallas" -> "dallas"
      [] t = "Compare" -> "compare"
      [] t = "MY" -> "my"
      [] t = "Lakes" -> "lakes"
      [] t = "Me" -> "me"
      [] OTHER -> t

LowerSeq(s) == [i \in 1..Len(s) |-> Lower(s[i])]

(***************************************************************************)
(* Float arithmetic on nullable numbers.                                   *)
(***************************************************************************)
IsNa(x) == x = NaN

\* pd.to_numeric(col, errors="coerce") on one cell
ToNumeric(cell) == IF cell.kind = "num" THEN <<cell.v>> ELSE NaN

\* a - b
Sub(a, b) == IF IsNa(a) \/ IsNa(b) THEN NaN ELSE <<a[1] - b[1]>>

\* (a / b) * 100.0 as a fraction; x / 0 is +-inf and 0 / 0 is NaN
PctOf(a, b) ==
    IF IsNa(a) \/ IsNa(b) THEN NaN
    ELSE IF b[1] = 0
         THEN (IF a[1] > 0 THEN <<1, 0>> ELSE IF a[1] < 0 THEN <<-1, 0>> ELSE NaN)
    ELSE IF b[1] > 0 THEN <<a[1] * 100, b[1]>>
    ELSE <<-(a[1] * 100), -(b[1])>>

\* p > k and p < k for a non-NaN percentage p and an integer k
PctGt(p, k) == IF p[2] = 0 THEN p[1] > 0 ELSE p[1] > k * p[2]
PctLt(p, k) == IF p[2] = 0 THEN p[1] < 0 ELSE p[1] < k * p[2]

\* p < q and p = q on non-NaN percentages
PctLess(p, q) ==
    IF p[2] = 0 /\ q[2] = 0 THEN p[1] < q[1]
    ELSE p[1] * q[2] < q[1] * p[2]
PctEq(p, q) == ~PctLess(p, q) /\ ~PctLess(q, p)

(***************************************************************************)
(* recommender._compute_growth_columns                                     *)
(***************************************************************************)
_label_trend_inclusive(pct) ==
    IF IsNa(pct) THEN "unknown"
    ELSE IF PctGt(pct, 10) \/ PctEq(pct, <<10, 1>>) THEN "rising"
    ELSE IF PctLt(pct, -5) \/ PctEq(pct, <<-5, 1>>) THEN "falling"
    ELSE "flat"

_label_trend(pct) ==
    IF IsNa(pct) THEN "unknown"
    ELSE IF PctGt(pct, 10) THEN "rising"
    ELSE IF PctLt(pct, -5) THEN "falling"
    ELSE "flat"

GrowthRow(cols, r) ==
    LET has3 == {"2022_Avg_Rent", "Current_Rent"} \subseteq cols
        has5 == {"2021_Avg_Rent", "Current_Rent"} \subseteq cols
        c3 == IF has3 THEN Sub(r.Current_Rent, r.Avg2022) ELSE NaN
        p3 == IF has3 THEN PctOf(c3, r.Avg2022) ELSE NaN
        c5 == IF has5 THEN Sub(r.Current_Rent, r.Avg2021) ELSE NaN
        p5 == IF has5 THEN PctOf(c5, r.Avg2021) ELSE NaN
    IN  [RegionName |-> r.RegionName, State |-> r.State,
         Current_Rent |-> r.Current_Rent,
         Avg2022 |-> r.Avg2022, Avg2021 |-> r.Avg2021,
         rent_3yr_change |-> c3, rent_3yr_pct_change |-> p3,
         rent_5yr_change |-> c5, rent_5yr_pct_change |-> p5,
         trend_label |-> IF has3 THEN _label_trend(p3) ELSE "unknown"]

_compute_growth_columns(df) ==
    LET has3 == {"2022_Avg_Rent", "Current_Rent"} \subseteq df.columns
        has5 == {"2021_Avg_Rent", "Current_Rent"} \subseteq df.columns
    IN  [columns |-> df.columns
                     \cup (IF has3 THEN {"rent_3yr_change", "rent_3yr_pct_change"} ELSE {})
                     \cup (IF has5 THEN {"rent_5yr_change", "rent_5yr_pct_change"} ELSE {})
                     \cup {"trend_label"},
         rows |-> [i \in 1..Len(df.rows) |-> GrowthRow(df.columns, df.rows[i])]]

(***************************************************************************)
(* recommender.load_data                                                   *)
(***************************************************************************)
\* _get_data_path resolves to a candidate that exists, or to the bare file
\* name; pd.read_csv then succeeds exactly when the file exists.
_get_data_path(f) == IF f.exists THEN <<"data">> \o _DATA_FILENAME ELSE _DATA_FILENAME

RenameColumn(c) ==
    CASE c = "StateName" -> "State" [] c = "City" -> "RegionName" [] OTHER -> c

\* read_csv, rename, to_numeric on every rent column
ReadFrame(f) ==
    [columns |-> {RenameColumn(c) : c \in f.columns},
     rows |-> [i \in 1..Len(f.rows) |->
                  [RegionName |-> f.rows[i].City,
                   State |-> f.rows[i].StateName,
                   Current_Rent |-> ToNumeric(f.rows[i].Current_Rent),
                   Avg2022 |-> IF "2022_Avg_Rent" \in f.columns
                               THEN ToNumeric(f.rows[i].Avg2022) ELSE NaN,
                   Avg2021 |-> IF "2021_Avg_Rent" \in f.columns
                               THEN ToNumeric(f.rows[i].Avg2021) ELSE NaN]]]

\* The table a successful read builds; id names the DataFrame object: the
\* n-th read of the process builds object n.
BuildTable(f, n) ==
    LET df == _compute_growth_columns(ReadFrame(f))
    IN  [id |-> n, columns |-> df.columns, rows |-> df.rows]

load_data_uncached(cache, log, f) ==
    IF f.exists
    THEN [raised |-> FALSE, log |-> Append(log, "ok"),
          cache |-> BuildTable(f, Len(log) + 1)]
    ELSE [raised |-> TRUE, log |-> Append(log, "fail"), cache |-> cache]

\* load_data() called with the module state (cache, log) and the file f:
\* whether it raised, and the module state after it.
load_data(cache, log, f) ==
    IF cache = None
    THEN (IF f.exists
          THEN [raised |-> FALSE, log |-> Append(log, "ok"),
                cache |-> BuildTable(f, Len(log) + 1)]
          ELSE [raised |-> TRUE, log |-> Append(log, "fail"), cache |-> cache])
    ELSE [raised |-> FALSE, log |-> log, cache |-> cache]

(***************************************************************************)
(* The query engine (recommender.py).  An absent optional argument (None,  *)
(* or the empty string: both are falsy) is "".                             *)
(***************************************************************************)
NoState == ""
NoTrend == ""

Min(a, b) == IF a <= b THEN a ELSE b
Max(a, b) == IF a >= b THEN a ELSE b

\* df.head(n): the first n rows, or all but the last -n when n is negative
head(s, n) ==
    IF n >= 0 THEN SubSeq(s, 1, Min(n, Len(s)))
    ELSE SubSeq(s, 1, Max(Len(s) + n, 0))

Injective(f) == \A i, j \in DOMAIN f : f[i] = f[j] => i = j

\* the value of column col in row r
Cell(r, col) ==
    CASE col = "Current_Rent" -> r.Current_Rent
      [] col = "rent_3yr_pct_change" -> r.rent_3yr_pct_change
      [] col = "rent_5yr_pct_change" -> r.rent_5yr_pct_change

\* a's value in column col is strictly below b's (neither is NaN)
Below(col, a, b) ==
    IF col = "Current_Rent" THEN a.Current_Rent[1] < b.Current_Rent[1]
    ELSE PctLess(Cell(a, col), Cell(b, col))

\* df.sort_values(col, ascending=...): the default sort kind is not stable,
\* so rows with equal keys may come out in any order.
sort_values(rows, col, ascending) ==
    LET n == Len(rows)
        perms == {p \in [1..n -> 1..n] : Injective(p)}
        sorted(p) ==
            \A i, j \in 1..n :
                i < j => IF ascending THEN ~Below(col, rows[p[j]], rows[p[i]])
                         ELSE ~Below(col, rows[p[i]], rows[p[j]])
    IN  {[i \in 1..n |-> rows[p[i]]] : p \in {q \in perms : sorted(q)}}

DropAggregate_never(df_columns, rows, include_us_aggregate) == rows

\* df[df["RegionName"] != "United States"] unless the aggregate is asked for
DropAggregate(df_columns, rows, include_us_aggregate) ==
    IF ~include_us_aggregate /\ "RegionName" \in df_columns
    THEN SelectSeq(rows, LAMBDA r : r.RegionName # UnitedStates)
    ELSE rows

FillNa(s) == IF s = NA THEN "" ELSE s

\* df[df["State"].fillna("").str.upper() == state.upper()] when a state is given
KeepState(df_columns, rows, state) ==
    IF state # NoState /\ "State" \in df_columns
    THEN SelectSeq(rows, LAMBDA r : Upper(FillNa(r.State)) = Upper(state))
    ELSE rows

NotNaRent(rows) == SelectSeq(rows, LAMBDA r : ~IsNa(r.Current_Rent))

filter_by_budget_unsorted(df, monthly_budget, state, trend, include_us_aggregate) ==
    LET d1 == IF ~include_us_aggregate /\ "RegionName" \in df.columns
              THEN SelectSeq(df.rows, LAMBDA r : r.RegionName # UnitedStates)
              ELSE df.rows
        d2 == SelectSeq(d1, LAMBDA r : ~IsNa(r.Current_Rent))
        d3 == SelectSeq(d2, LAMBDA r : r.Current_Rent[1] <= monthly_budget)
    IN  {IF state # NoState
         THEN SelectSeq(d3, LAMBDA r : Upper(r.State) = Upper(state))
         ELSE d3}

\* The possible results of filter_by_budget on the loaded table df.
filter_by_budget(df, monthly_budget, state, trend, include_us_aggregate) ==
    LET d1 == DropAggregate(df.columns, df.rows, include_us_aggregate)
        d2 == NotNaRent(d1)
        d3 == SelectSeq(d2, LAMBDA r : r.Current_Rent[1] <= monthly_budget)
        d4 == KeepState(df.columns, d3, state)
        d5 == IF trend # NoTrend /\ "trend_label" \in df.columns
              THEN SelectSeq(d4, LAMBDA r : r.trend_label = trend)
              ELSE d4
    IN  sort_values(d5, "Current_Rent", TRUE)

cheapest_metros(df, limit, state, include_us_aggregate) ==
    LET d1 == DropAggregate(df.columns, df.rows, include_us_aggregate)
        d2 == KeepState(df.columns, d1, state)
        d3 == NotNaRent(d2)
    IN  {head(s, limit) : s \in sort_values(d3, "Current_Rent", TRUE)}

most_expensive_metros_ascending(df, limit, state, include_us_aggregate) ==
    cheapest_metros(df, limit, state, include_us_aggregate)

most_expensive_metros(df, limit, state, include_us_aggregate) ==
    LET d1 == DropAggregate(df.columns, df.rows, include_us_aggregate)
        d2 == KeepState(df.columns, d1, state)
        d3 == NotNaRent(d2)
    IN  {head(s, limit) : s \in sort_values(d3, "Current_Rent", FALSE)}

GrowthCol(horizon) ==
    IF horizon = "3y" THEN "rent_3yr_pct_change" ELSE "rent_5yr_pct_change"

best_rent_growth(df, limit, horizon, direction, state, include_us_aggregate) ==
    LET d1 == DropAggregate(df.columns, df.rows, include_us_aggregate)
        d2 == KeepState(df.columns, d1, state)
        col == GrowthCol(horizon)
        d3 == SelectSeq(d2, LAMBDA r : ~IsNa(Cell(r, col)))
        ascending == direction = "down"
    IN  IF col \notin df.columns THEN {<<>>}
        ELSE {head(s, limit) : s \in sort_values(d3, col, ascending)}

\* str.strip() on a state cell
Strip(s) == CASE s = " TX" -> "TX" [] s = " " -> "" [] OTHER -> s

\* available_states: the distinct non-empty stripped upper-cased state
\* codes; the list is sorted, which a set stands for here.
available_states(df) ==
    IF "State" \notin df.columns THEN {}
    ELSE {Upper(Strip(df.rows[i].State)) :
              i \in {j \in 1..Len(df.rows) : df.rows[j].State # NA}} \ {""}

\* s contains sub as a contiguous run (str.contains on words)
Contains(s, sub) ==
    \E k \in 0..(Len(s) - Len(sub)) :
        \A i \in 1..Len(sub) : s[k + i] = sub[i]

\* rows[mask].iloc[0] when the mask selects a row, None otherwise
First(rows, mask) ==
    IF mask = {} THEN None
    ELSE rows[CHOOSE i \in mask : \A j \in mask : i <= j]

_find_contains_first(df, metro) ==
    IF "RegionName" \notin df.columns THEN None
    ELSE First(df.rows, {i \in 1..Len(df.rows) :
                   Contains(LowerSeq(df.rows[i].RegionName), LowerSeq(metro))})

\* compare_metros._find
_find(df, metro) ==
    IF "RegionName" \notin df.columns THEN None
    ELSE LET rows == df.rows
             exact == {i \in 1..Len(rows) :
                          LowerSeq(rows[i].RegionName) = LowerSeq(metro)}
             subset == {i \in 1..Len(rows) :
                           Contains(LowerSeq(rows[i].RegionName), LowerSeq(metro))}
         IN  IF exact # {} THEN First(rows, exact) ELSE First(rows, subset)

compare_metros(df, metro_a, metro_b) ==
    [a |-> _find(df, metro_a), b |-> _find(df, metro_b)]

(***************************************************************************)
(* The intent parser (chatbot.py).  A message is the sequence of its       *)
(* words, already stripped; a hyphenated word is one token whose parts     *)
(* Words gives, because the regular expressions see a word boundary at a   *)
(* hyphen.                                                                 *)
(***************************************************************************)
_US_STATES ==
    {"AL", "AK", "AZ", "AR", "CA", "CO", "CT", "DE", "FL", "GA",
     "HI", "ID", "IL", "IN", "IA", "KS", "KY", "LA", "ME", "MD",
     "MA", "MI", "MN", "MS", "MO", "MT", "NE", "NV", "NH", "NJ",
     "NM", "NY", "NC", "ND", "OH", "OK", "OR", "PA", "RI", "SC",
     "SD", "TN", "TX", "UT", "VT", "VA", "WA", "WV", "WI", "WY"}

\* the words (runs of letters and digits) of one token
Words(t) ==
    CASE t = "up-and-coming" -> <<"up", "and", "coming">>
      [] t = "5-year" -> <<"5", "year">>
      [] OTHER -> <<t>>

\* the numerals re.findall(r"(\d+\.?\d*)") finds in one token
NumeralsOf(t) ==
    CASE t = "2500" -> <<2500>>
      [] t = "$2,500" -> <<2500>>
      [] t = "$1,800" -> <<1800>>
      [] t = "1800" -> <<1800>>
      [] t = "100" -> <<100>>
      [] t = "25000" -> <<25000>>
      [] t = "5" -> <<5>>
      [] t = "5-year" -> <<5>>
      [] OTHER -> <<>>

\* the words that match [A-Za-z]{2}
TwoLetterWords ==
    _US_STATES \cup {Lower(c) : c \in _US_STATES} \cup {"up", "yo", "of", "UP", "YO", "OF"}
        \cup {"my", "MY", "Me"}

Flatten(ss) ==
    LET F[i \in 0..Len(ss)] == IF i = 0 THEN <<>> ELSE F[i - 1] \o ss[i]
    IN  F[Len(ss)]

WordsOf(text) == Flatten([i \in 1..Len(text) |-> Words(text[i])])
NumeralsIn(text) == Flatten([i \in 1..Len(text) |-> NumeralsOf(text[i])])

\* "kw in t" for a keyword kw of one or more words
HasAny(text, keywords) == \E kw \in keywords : Contains(LowerSeq(text), kw)

NoBudget == <<>>

_parse_budget_first_numeral(text) ==
    IF NumeralsIn(text) = <<>> THEN NoBudget ELSE <<NumeralsIn(text)[1]>>

_parse_budget(text) ==
    LET nums == NumeralsIn(text)
        plausible == {i \in 1..Len(nums) : 300 <= nums[i] /\ nums[i] <= 20000}
    IN  IF nums = <<>> THEN NoBudget
        ELSE IF plausible # {}
             THEN <<nums[CHOOSE i \in plausible : \A j \in plausible : i <= j]>>
        ELSE <<nums[1]>>

\* re.search(r"\bin\s+([A-Za-z]{2})\b"): the two letters after the first
\* "in" that is followed by a two-letter word, or "" when there is none
InPattern(text) ==
    LET hits == {i \in 1..(Len(text) - 1) :
                    /\ Lower(text[i]) = "in"
                    /\ Words(text[i + 1])[1] \in TwoLetterWords}
    IN  IF hits = {} THEN ""
        ELSE Words(text[(CHOOSE i \in hits : \A j \in hits : i <= j) + 1])[1]

_parse_state_caps_first(text) ==
    LET inCode == Upper(InPattern(text))
        words == WordsOf(text)
        caps == {i \in 1..Len(words) : words[i] \in _US_STATES}
    IN  IF caps # {}
        THEN words[CHOOSE i \in caps : \A j \in caps : i <= j]
        ELSE IF inCode \in _US_STATES THEN inCode
        ELSE NoState

_parse_state(text) ==
    LET inCode == Upper(InPattern(text))
        words == WordsOf(text)
        caps == {i \in 1..Len(words) :
                    /\ words[i] \in TwoLetterWords
                    /\ words[i] = Upper(words[i])
                    /\ words[i] \in _US_STATES}
    IN  IF inCode \in _US_STATES THEN inCode
        ELSE IF caps # {}
             THEN words[CHOOSE i \in caps : \A j \in caps : i <= j]
        ELSE NoState

AND == "<and>"

\* the text cut at every \band\b: "and" itself, and the "and" inside
\* "up-and-coming"
AndPieces(text) ==
    Flatten([i \in 1..Len(text) |->
                IF Lower(text[i]) = "and" THEN <<AND>>
                ELSE IF Lower(text[i]) = "up-and-coming" THEN <<"up-", AND, "-coming">>
                ELSE <<text[i]>>])

NoPair == <<>>

_parse_compare_request(text) ==
    LET pieces == AndPieces(text)
        cuts == {i \in 1..Len(pieces) : pieces[i] = AND}
        last == CHOOSE i \in cuts : \A j \in cuts : j <= i
        before == {i \in cuts : i < last}
        prev == IF before = {} THEN 0
                ELSE CHOOSE i \in before : \A j \in before : j <= i
        part == SubSeq(pieces, prev + 1, last - 1)
        a == IF prev = 0 /\ part # <<>> /\ Lower(part[1]) = "compare"
             THEN Tail(part) ELSE part
        b == SubSeq(pieces, last + 1, Len(pieces))
    IN  IF ~HasAny(text, {<<"compare">>}) THEN NoPair
        ELSE IF cuts = {} THEN NoPair
        ELSE IF a # <<>> /\ b # <<>> THEN <<a, b>>
        ELSE NoPair

_is_cheapest_request(text) ==
    HasAny(text, {<<"cheapest">>, <<"low", "cost">>, <<"least", "expensive">>,
                  <<"most", "affordable">>, <<"affordable", "metros">>})

_is_most_expensive_request(text) ==
    HasAny(text, {<<"most", "expensive">>, <<"high", "cost">>, <<"priciest">>,
                  <<"top", "expensive">>})

NoGrowth == <<>>

_parse_growth_intent(text) ==
    LET up == HasAny(text, {<<"up-and-coming">>, <<"up", "and", "coming">>,
                            <<"rising">>, <<"growing">>})
        down == HasAny(text, {<<"declining">>, <<"falling">>, <<"going", "down">>,
                              <<"cooling">>})
        horizon == IF HasAny(text, {<<"5", "year">>, <<"five", "year">>, <<"5-year">>})
                   THEN "5y" ELSE "3y"
    IN  IF up THEN <<horizon, "up">>
        ELSE IF down THEN <<horizon, "down">>
        ELSE NoGrowth

_is_greeting(text) ==
    \/ LowerSeq(text) \in {<<"hi">>, <<"hello">>, <<"hey">>, <<"yo">>, <<"hi", "there">>,
                            <<"good", "morning">>, <<"good", "evening">>}
    \/ Len(text) >= 2 /\ Lower(text[1]) \in {"hi", "hello", "hey"}

_is_relocation_related(text) ==
    HasAny(text, {<<"rent">>, <<"rental">>, <<"apartment">>, <<"flat">>, <<"housing">>,
                  <<"move">>, <<"moving">>, <<"relocate">>, <<"relocation">>,
                  <<"city">>, <<"metro">>, <<"neighborhood">>, <<"budget">>,
                  <<"cheapest">>, <<"affordable">>, <<"expensive">>, <<"compare">>,
                  <<"cost", "of", "living">>, <<"up-and-coming">>,
                  <<"up", "and", "coming">>, <<"declining">>})

(***************************************************************************)
(* The inputs of the model.                                                *)
(***************************************************************************)
SeqsUpTo(S, n) == UNION {[1..k -> S] : k \in 0..n}

\* the columns data_cleaning.py writes (City, StateName, the yearly
\* averages, Current_Rent)
AllColumns == {"City", "StateName", "2021_Avg_Rent", "2022_Avg_Rent", "Current_Rent"}

\* the aggregate row, and metros of one state written in either case, with
\* a rent that is missing, low or high
QueryRowU ==
    {[City |-> UnitedStates, StateName |-> NA, Current_Rent |-> Num(900),
      Avg2022 |-> Num(1000), Avg2021 |-> Num(800)]}
    \cup
    {[City |-> ns[1], StateName |-> ns[2], Current_Rent |-> c,
      Avg2022 |-> Num(1000), Avg2021 |-> Num(800)] :
        ns \in {<<<<"Austin", "TX">>, "TX">>, <<<<"Dallas", "TX">>, "tx">>},
        c \in {EmptyCell, Num(900), Num(1500)}}

Budgets == {900, 1500}
StateArgs == {NoState, "tx", "CA"}
TrendArgs == {NoTrend, "rising"}
Limits == (-1)..MaxLimit
Horizons == {"3y", "5y"}
Directions == {"up", "down"}
CompareNames == {<<"austin", "tx">>, <<"united">>, UnitedStates, <<"TX">>, <<"asdkfj">>}

(***************************************************************************)
(* The query engine called directly.  Every operation starts with          *)
(* load_data(); the four ranking and filtering queries work on             *)
(* load_data().copy(), so what they do to their frame leaves the cached    *)
(* one as it was.                                                          *)
(***************************************************************************)
CacheAfterQuery_inplace(cache, result) == [cache EXCEPT !.rows = result]

\* df = load_data().copy(): the query filters and sorts its own copy
CacheAfterQuery(cache, result) == cache

\* load_data may read the file: the number of reads is capped
CanLoad == _DATA_CACHE # None \/ Len(readLog) < MaxReads

Raised(name) == [op |-> name, raised |-> TRUE]

LoadData ==
    /\ ret = NoCall /\ CanLoad
    /\ LET L == load_data(_DATA_CACHE, readLog, file)
       IN  /\ _DATA_CACHE' = L.cache
           /\ readLog' = L.log
           /\ ret' = IF L.raised THEN Raised("load_data")
                     ELSE [op |-> "load_data", raised |-> FALSE, src |-> L.cache.id]
    /\ UNCHANGED <<threads, file, retCheap, retExp, reply>>

FilterByBudget(budget, state, trend, incl) ==
    /\ ret = NoCall /\ CanLoad
    /\ LET L == load_data(_DATA_CACHE, readLog, file)
       IN  /\ readLog' = L.log
           /\ IF L.raised
              THEN /\ ret' = Raised("filter_by_budget")
                   /\ _DATA_CACHE' = L.cache
              ELSE \E rows \in filter_by_budget(L.cache, budget, state, trend, incl) :
                     /\ ret' = [op |-> "filter_by_budget", raised |-> FALSE,
                                budget |-> budget, state |-> state, trend |-> trend,
                                include_us_aggregate |-> incl,
                                rows |-> rows, src |-> L.cache.id]
                     /\ _DATA_CACHE' = CacheAfterQuery(L.cache, rows)
    /\ UNCHANGED <<threads, file, retCheap, retExp, reply>>

CheapestMetros(limit, state, incl) ==
    /\ ret = NoCall /\ CanLoad
    /\ LET L == load_data(_DATA_CACHE, readLog, file)
       IN  /\ readLog' = L.log
           /\ IF L.raised
              THEN /\ ret' = Raised("cheapest_metros")
                   /\ _DATA_CACHE' = L.cache
              ELSE \E rows \in cheapest_metros(L.cache, limit, state, incl) :
                     /\ ret' = [op |-> "cheapest_metros", raised |-> FALSE,
                                limit |-> limit, state |-> state,
                                include_us_aggregate |-> incl,
                                rows |-> rows, src |-> L.cache.id]
                     /\ _DATA_CACHE' = CacheAfterQuery(L.cache, rows)
    /\ UNCHANGED <<threads, file, retCheap, retExp, reply>>

MostExpensiveMetros(limit, state, incl) ==
    /\ ret = NoCall /\ CanLoad
    /\ LET L == load_data(_DATA_CACHE, readLog, file)
       IN  /\ readLog' = L.log
           /\ IF L.raised
              THEN /\ ret' = Raised("most_expensive_metros")
                   /\ _DATA_CACHE' = L.cache
              ELSE \E rows \in most_expensive_metros(L.cache, limit, state, incl) :
                     /\ ret' = [op |-> "most_expensive_metros", raised |-> FALSE,
                                limit |-> limit, state |-> state,
                                include_us_aggregate |-> incl,
                                rows |-> rows, src |-> L.cache.id]
                     /\ _DATA_CACHE' = CacheAfterQuery(L.cache, rows)
    /\ UNCHANGED <<threads, file, retCheap, retExp, reply>>

BestRentGrowth(limit, horizon, direction, state, incl) ==
    /\ ret = NoCall /\ CanLoad
    /\ LET L == load_data(_DATA_CACHE, readLog, file)
       IN  /\ readLog' = L.log
           /\ IF L.raised
              THEN /\ ret' = Raised("best_rent_growth")
                   /\ _DATA_CACHE' = L.cache
              ELSE \E rows \in best_rent_growth(L.cache, limit, horizon, direction,
                                                state, incl) :
                     /\ ret' = [op |-> "best_rent_growth", raised |-> FALSE,
                                limit |-> limit, horizon |-> horizon,
                                direction |-> direction, state |-> state,
                                include_us_aggregate |-> incl,
                                rows |-> rows, src |-> L.cache.id]
                     /\ _DATA_CACHE' = CacheAfterQuery(L.cache, rows)
    /\ UNCHANGED <<threads, file, retCheap, retExp, reply>>

AvailableStates ==
    /\ ret = NoCall /\ CanLoad
    /\ LET L == load_data(_DATA_CACHE, readLog, file)
       IN  /\ readLog' = L.log
           /\ _DATA_CACHE' = L.cache
           /\ ret' = IF L.raised THEN Raised("available_states")
                     ELSE [op |-> "available_states", raised |-> FALSE,
                           states |-> available_states(L.cache), src |-> L.cache.id]
    /\ UNCHANGED <<threads, file, retCheap, retExp, reply>>

CompareMetros(metro_a, metro_b) ==
    /\ ret = NoCall /\ CanLoad
    /\ LET L == load_data(_DATA_CACHE, readLog, file)
       IN  /\ readLog' = L.log
           /\ _DATA_CACHE' = L.cache
           /\ ret' = IF L.raised THEN Raised("compare_metros")
                     ELSE [op |-> "compare_metros", raised |-> FALSE,
                           metro_a |-> metro_a, metro_b |-> metro_b,
                           result |-> compare_metros(L.cache, metro_a, metro_b),
                           src |-> L.cache.id]
    /\ UNCHANGED <<threads, file, retCheap, retExp, reply>>

\* the caller takes the result (or the exception)
Return ==
    /\ ret # NoCall
    /\ ret' = NoCall
    /\ UNCHANGED <<threads, file, _DATA_CACHE, readLog, retCheap, retExp, reply>>

\* the environment removes the backing file
DeleteFile ==
    /\ file.exists /\ ret = NoCall /\ reply = NoCall
    /\ file' = [file EXCEPT !.exists = FALSE]
    /\ UNCHANGED <<threads, _DATA_CACHE, readLog, ret, retCheap, retExp, reply>>

Init ==
    /\ file \in [exists : {TRUE}, columns : {AllColumns},
                  rows : SeqsUpTo(QueryRowU, MaxRows)]
    /\ _DATA_CACHE = None
    /\ readLog = <<>>
    /\ ret = NoCall
    /\ retCheap = NoCall
    /\ retExp = NoCall
    /\ reply = NoCall
    /\ threads = NoThreads

Next ==
    \/ LoadData
    \/ \E b \in Budgets, s \in StateArgs, t \in TrendArgs, u \in BOOLEAN :
          FilterByBudget(b, s, t, u)
    \/ \E n \in Limits, s \in StateArgs, u \in BOOLEAN : CheapestMetros(n, s, u)
    \/ \E n \in Limits, s \in StateArgs, u \in BOOLEAN : MostExpensiveMetros(n, s, u)
    \/ \E n \in Limits, h \in Horizons, d \in Directions, s \in StateArgs,
          u \in BOOLEAN : BestRentGrowth(n, h, d, s, u)
    \/ AvailableStates
    \/ \E a \in CompareNames, b \in CompareNames : CompareMetros(a, b)
    \/ Return
    \/ DeleteFile

Spec == Init /\ [][Next]_vars

(***************************************************************************)
(* Properties of the query engine, checked under Spec.                     *)
(***************************************************************************)
RankingOps ==
    {"filter_by_budget", "cheapest_metros", "most_expensive_metros", "best_rent_growth"}

Returned(name) == ret.op = name /\ ~ret.raised

\* C2: every row filter_by_budget(B, S) returns has a non-null current rent
\* <= B and, when S is given, a state equal to S after upper-casing; with
\* the aggregate flag at its default no row is 'United States'; the rows
\* are in non-decreasing order of current rent.
C2_BudgetFilterSound ==
    Returned("filter_by_budget") =>
        /\ \A i \in 1..Len(ret.rows) :
              LET r == ret.rows[i]
              IN  /\ ~IsNa(r.Current_Rent)
                  /\ r.Current_Rent[1] <= ret.budget
                  /\ (ret.state # NoState => Upper(r.State) = Upper(ret.state))
                  /\ (~ret.include_us_aggregate => r.RegionName # UnitedStates)
        /\ \A i, j \in 1..Len(ret.rows) :
              i < j => ret.rows[i].Current_Rent[1] <= ret.rows[j].Current_Rent[1]

\* a filter on a state given in lower case returned two rows whose states
\* differ in case, in the opposite order of the dataset's
C2_Witness ==
    /\ Returned("filter_by_budget")
    /\ ret.state = "tx" /\ ~ret.include_us_aggregate
    /\ Len(ret.rows) = 2
    /\ ret.rows[1].State # ret.rows[2].State
    /\ ret.rows[1].Current_Rent[1] < ret.rows[2].Current_Rent[1]
    /\ Len(_DATA_CACHE.rows) = 2
    /\ _DATA_CACHE.rows[1] = ret.rows[2]

\* C3: once loaded, the cached table is the table the load built from the
\* file: same rows, same order, same values, whatever queries have run.
C3_CacheUnchanged ==
    _DATA_CACHE # None => _DATA_CACHE = BuildTable(file, _DATA_CACHE.id)

\* a query returned fewer rows than the cached table holds
C3_Witness ==
    /\ ret.op \in RankingOps /\ ~ret.raised
    /\ Len(_DATA_CACHE.rows) = 2
    /\ Len(ret.rows) = 1
    /\ ret.rows[1] = _DATA_CACHE.rows[2]

\* C4: when the first read of the file succeeded it is the only read there
\* ever is, and every call returns the table that read built.
C4_LoadedOnce ==
    (Len(readLog) >= 1 /\ readLog[1] = "ok") =>
        /\ readLog = <<"ok">>
        /\ _DATA_CACHE # None /\ _DATA_CACHE.id = 1
        /\ (ret # NoCall => (~ret.raised /\ ret.src = 1))

\* load_data() returned the cached table after the file had been removed
C4_Witness ==
    /\ Returned("load_data")
    /\ ~file.exists
    /\ readLog = <<"ok">>
    /\ ret.src = 1

IsAggregate(x) == x # None /\ x.RegionName = UnitedStates

\* C5 as stated: with the flag at its default no query operation, the
\* comparison included, returns the 'United States' row.
C5_NoOperationReturnsAggregate ==
    /\ (ret.op \in RankingOps /\ ~ret.raised /\ ~ret.include_us_aggregate) =>
           \A i \in 1..Len(ret.rows) : ret.rows[i].RegionName # UnitedStates
    /\ Returned("compare_metros") =>
           (~IsAggregate(ret.result.a) /\ ~IsAggregate(ret.result.b))

\* C5 as amended: the four ranking and filtering queries never return the
\* 'United States' row with the flag at its default; compare_metros, which
\* has no flag, returns it for a name that is its name in any case.
C5_RankingExcludesAggregate ==
    /\ (ret.op \in RankingOps /\ ~ret.raised /\ ~ret.include_us_aggregate) =>
           \A i \in 1..Len(ret.rows) : ret.rows[i].RegionName # UnitedStates
    /\ (/\ Returned("compare_metros")
        /\ LowerSeq(ret.metro_a) = LowerSeq(UnitedStates)
        /\ \E i \in 1..Len(_DATA_CACHE.rows) :
              _DATA_CACHE.rows[i].RegionName = UnitedStates)
           => IsAggregate(ret.result.a)

\* cheapest_metros at its defaults ranked a table whose first row is the
\* aggregate, and returned only the other row
C5_Witness ==
    /\ Returned("cheapest_metros")
    /\ ~ret.include_us_aggregate /\ ret.state = NoState /\ ret.limit = 2
    /\ Len(_DATA_CACHE.rows) = 2
    /\ _DATA_CACHE.rows[1].RegionName = UnitedStates
    /\ ~IsNa(_DATA_CACHE.rows[1].Current_Rent)
    /\ Len(ret.rows) = 1

(***************************************************************************)
(* The growth calculator on its own: one metro whose rents sit on and      *)
(* around the thresholds, with every kind of missing input, loaded from a  *)
(* file that has both, one or none of the baseline columns.                *)
(***************************************************************************)
GrowthRents ==
    {EmptyCell, TextCell, Num(0), Num(940), Num(950), Num(1000), Num(1100), Num(1110)}
GrowthBaselines == {EmptyCell, Num(0), Num(1000)}

GrowthRowU ==
    [City : {<<"Austin", "TX">>}, StateName : {"TX"}, Current_Rent : GrowthRents,
     Avg2022 : GrowthBaselines, Avg2021 : GrowthBaselines]

GrowthColumnSets ==
    {AllColumns \ missing : missing \in SUBSET {"2021_Avg_Rent", "2022_Avg_Rent"}}

InitGrowth ==
    /\ file \in [exists : {TRUE}, columns : GrowthColumnSets,
                  rows : SeqsUpTo(GrowthRowU, GrowthMaxRows)]
    /\ _DATA_CACHE = None
    /\ readLog = <<>>
    /\ ret = NoCall
    /\ retCheap = NoCall
    /\ retExp = NoCall
    /\ reply = NoCall
    /\ threads = NoThreads

NextGrowth == LoadData \/ Return

SpecGrowth == InitGrowth /\ [][NextGrowth]_vars

LoadedRows == IF _DATA_CACHE = None THEN <<>> ELSE _DATA_CACHE.rows

\* C7: trend_label depends on the 3-year percentage only: 'unknown' when it
\* is null, 'rising' above 10, 'falling' below -5, 'flat' otherwise, 10 and
\* -5 included; without a 3-year baseline column every row is 'unknown'.
C7_TrendLabel ==
    \A i \in 1..Len(LoadedRows) :
        LET r == LoadedRows[i]
            p == r.rent_3yr_pct_change
        IN  IF "rent_3yr_pct_change" \notin _DATA_CACHE.columns \/ p = NaN
            THEN r.trend_label = "unknown"
            ELSE r.trend_label =
                     (IF p[1] > 10 * p[2] THEN "rising"
                      ELSE IF p[1] < (-5) * p[2] THEN "falling"
                      ELSE "flat")

\* a loaded row whose 3-year change is exactly 10 per cent is 'flat'
C7_Witness ==
    \E i \in 1..Len(LoadedRows) :
        LET p == LoadedRows[i].rent_3yr_pct_change
        IN  /\ p # NaN /\ p[2] > 0 /\ p[1] = 10 * p[2]
            /\ LoadedRows[i].trend_label = "flat"

PctAsSpecified(r, base, p) ==
    IF IsNa(r.Current_Rent) \/ IsNa(base) \/ base[1] = 0
    THEN p = NaN
    ELSE /\ p # NaN /\ p[2] > 0
         /\ p[1] * base[1] = (r.Current_Rent[1] - base[1]) * 100 * p[2]

\* C8: for both horizons the percentage is (current - baseline) / baseline
\* * 100 when both are present and the baseline is not zero, and null when
\* the baseline is null or zero or the current rent is null; a row with a
\* zero 3-year baseline is labelled 'unknown'.
C8_GrowthPct ==
    \A i \in 1..Len(LoadedRows) :
        LET r == LoadedRows[i]
        IN  /\ "rent_3yr_pct_change" \in _DATA_CACHE.columns =>
                  /\ PctAsSpecified(r, r.Avg2022, r.rent_3yr_pct_change)
                  /\ (r.Avg2022 = <<0>> => r.trend_label = "unknown")
            /\ "rent_5yr_pct_change" \in _DATA_CACHE.columns =>
                  PctAsSpecified(r, r.Avg2021, r.rent_5yr_pct_change)

(***************************************************************************)
(* The two rankings side by side: each keeps its last result, so that a    *)
(* state holds what cheapest_metros and most_expensive_metros returned for *)
(* the same table.                                                         *)
(***************************************************************************)
RankCheapest(limit, state) ==
    /\ retCheap = NoCall /\ CanLoad
    /\ LET L == load_data(_DATA_CACHE, readLog, file)
       IN  /\ readLog' = L.log
           /\ ~L.raised
           /\ \E rows \in cheapest_metros(L.cache, limit, state, FALSE) :
                 /\ retCheap' = [op |-> "cheapest_metros", limit |-> limit,
                                 state |-> state, rows |-> rows]
                 /\ _DATA_CACHE' = CacheAfterQuery(L.cache, rows)
    /\ UNCHANGED <<threads, file, ret, retExp, reply>>

RankMostExpensive(limit, state) ==
    /\ retExp = NoCall /\ CanLoad
    /\ LET L == load_data(_DATA_CACHE, readLog, file)
       IN  /\ readLog' = L.log
           /\ ~L.raised
           /\ \E rows \in most_expensive_metros(L.cache, limit, state, FALSE) :
                 /\ retExp' = [op |-> "most_expensive_metros", limit |-> limit,
                               state |-> state, rows |-> rows]
                 /\ _DATA_CACHE' = CacheAfterQuery(L.cache, rows)
    /\ UNCHANGED <<threads, file, ret, retCheap, reply>>

NextRank ==
    \/ \E n \in Limits, s \in StateArgs : RankCheapest(n, s)
    \/ \E n \in Limits, s \in StateArgs : RankMostExpensive(n, s)

SpecRank == Init /\ [][NextRank]_vars

Reverse(s) == [i \in 1..Len(s) |-> s[Len(s) + 1 - i]]
RentSeq(rows) == [i \in 1..Len(rows) |-> rows[i].Current_Rent[1]]
Count(x, rows) == Cardinality({i \in 1..Len(rows) : rows[i] = x})

\* both rankings have run with the same arguments
RankedAlike ==
    /\ retCheap # NoCall /\ retExp # NoCall
    /\ retCheap.limit = retExp.limit /\ retCheap.state = retExp.state

\* the rows both rankings rank: not the aggregate, of the state asked for,
\* with a current rent
Ranked(state) ==
    SelectSeq(_DATA_CACHE.rows,
              LAMBDA r : /\ r.RegionName # UnitedStates
                         /\ (state # NoState => Upper(r.State) = Upper(state))
                         /\ r.Current_Rent # NaN)

\* C6 as stated: for every limit N the two results are orderings of each
\* other in opposite directions (read on the rents alone, and for the
\* limits N >= 0 that take the first N rows).
C6_ReverseOfEachOther ==
    (RankedAlike /\ retCheap.limit >= 0) =>
        RentSeq(retExp.rows) = Reverse(RentSeq(retCheap.rows))

\* rows is a selection of n rows of all, with no row taken more often than
\* all holds it
SelectionOf(rows, all, n) ==
    /\ Len(rows) = Min(n, Len(all))
    /\ \A i \in 1..Len(rows) : Count(rows[i], rows) <= Count(rows[i], all)

\* C6 as amended: for every limit N >= 0, cheapest_metros(N) is N of the
\* ranked rows (all of them when there are fewer) in non-decreasing order of
\* rent, none dearer than a row left out, and most_expensive_metros(N) is N
\* of the same rows in non-increasing order, none cheaper than a row left
\* out; when N is at least the number of ranked rows the two list the same
\* rents in opposite orders.  Nothing is promised about rows of equal rent.
C6_TopOfOppositeOrders ==
    (RankedAlike /\ retCheap.limit >= 0) =>
        LET all == Ranked(retCheap.state)
            n == retCheap.limit
            c == retCheap.rows
            e == retExp.rows
            left(rows) == {i \in 1..Len(all) : Count(all[i], rows) < Count(all[i], all)}
        IN  /\ SelectionOf(c, all, n) /\ SelectionOf(e, all, n)
            /\ \A i, j \in 1..Len(c) :
                  i < j => c[i].Current_Rent[1] <= c[j].Current_Rent[1]
            /\ \A i, j \in 1..Len(e) :
                  i < j => e[i].Current_Rent[1] >= e[j].Current_Rent[1]
            /\ \A i \in 1..Len(c), k \in left(c) :
                  c[i].Current_Rent[1] <= all[k].Current_Rent[1]
            /\ \A i \in 1..Len(e), k \in left(e) :
                  e[i].Current_Rent[1] >= all[k].Current_Rent[1]
            /\ (n >= Len(all) => RentSeq(e) = Reverse(RentSeq(c)))

\* both rankings returned the two rows of a table, of different rents, the
\* cheapest first in one and last in the other
C6_Witness ==
    /\ RankedAlike /\ retCheap.limit = 2
    /\ Len(retCheap.rows) = 2
    /\ retCheap.rows[1].Current_Rent[1] < retCheap.rows[2].Current_Rent[1]
    /\ retExp.rows = Reverse(retCheap.rows)
    /\ _DATA_CACHE.rows = retExp.rows

(***************************************************************************)
(* chatbot.chat.  Route is the chain of early returns that picks the       *)
(* branch; ChatOutcomes runs the branch, every query going through         *)
(* load_data, and gives the possible results: the module state after the   *)
(* call and the reply (or the exception that left chat).                   *)
(***************************************************************************)
ChatLimit == 10

StateMissing(state, states_in_data) ==
    state # NoState /\ states_in_data # {} /\ state \notin states_in_data

Route_cheapest_first(message, states_in_data) ==
    IF message = <<>> THEN "empty"
    ELSE IF _is_greeting(message) THEN "greeting"
    ELSE IF ~_is_relocation_related(message) THEN "off_topic"
    ELSE IF StateMissing(_parse_state(message), states_in_data) THEN "state_check"
    ELSE IF _parse_compare_request(message) # NoPair THEN "compare"
    ELSE IF _is_cheapest_request(message) THEN "cheapest"
    ELSE IF _parse_growth_intent(message) # NoGrowth THEN "growth"
    ELSE IF _is_most_expensive_request(message) THEN "most_expensive"
    ELSE "budget"

Route(message, states_in_data) ==
    IF message = <<>> THEN "empty"
    ELSE IF _is_greeting(message) THEN "greeting"
    ELSE IF ~_is_relocation_related(message) THEN "off_topic"
    ELSE IF StateMissing(_parse_state(message), states_in_data) THEN "state_check"
    ELSE IF _parse_compare_request(message) # NoPair THEN "compare"
    ELSE IF _parse_growth_intent(message) # NoGrowth THEN "growth"
    ELSE IF _is_cheapest_request(message) THEN "cheapest"
    ELSE IF _is_most_expensive_request(message) THEN "most_expensive"
    ELSE "budget"

\* (info.get("Current_Rent") or 0): NaN is truthy, so only 0 is replaced
RentOrZero(info) == info.Current_Rent

\* the reply of the compare branch for what compare_metros found
CompareReply(results) ==
    LET info_a == results.a
        info_b == results.b
        ra == RentOrZero(info_a)
        rb == RentOrZero(info_b)
        diff == Sub(rb, ra)
    IN  IF info_a = None /\ info_b = None
        THEN [kind |-> "neither_found", items |-> <<>>, diff |-> NaN]
        ELSE IF info_a = None \/ info_b = None
        THEN [kind |-> "one_missing", items |-> <<>>, diff |-> NaN]
        ELSE IF ~IsNa(diff) /\ diff[1] # 0
        THEN [kind |-> "comparison_differs", items |-> <<info_a, info_b>>, diff |-> diff]
        ELSE [kind |-> "comparison_similar", items |-> <<info_a, info_b>>, diff |-> diff]

\* what the branch's query and template make of the loaded table df
BranchReplies(branch, message, state, df) ==
    CASE branch = "compare" ->
           LET pair == _parse_compare_request(message)
           IN  {CompareReply(compare_metros(df, pair[1], pair[2]))}
      [] branch = "growth" ->
           LET growth == _parse_growth_intent(message)
           IN  {[kind |-> IF rows = <<>> THEN "growth_none" ELSE "growth_list",
                 items |-> rows, diff |-> NaN] :
                    rows \in best_rent_growth(df, ChatLimit, growth[1], growth[2],
                                              state, FALSE)}
      [] branch = "cheapest" ->
           {[kind |-> IF rows = <<>> THEN "ranking_none" ELSE "cheapest_list",
             items |-> rows, diff |-> NaN] :
                rows \in cheapest_metros(df, ChatLimit, state, FALSE)}
      [] branch = "most_expensive" ->
           {[kind |-> IF rows = <<>> THEN "ranking_none" ELSE "most_expensive_list",
             items |-> rows, diff |-> NaN] :
                rows \in most_expensive_metros(df, ChatLimit, state, FALSE)}
      [] branch = "budget" ->
           LET budget == _parse_budget(message)
           IN  IF budget = NoBudget
               THEN {[kind |-> IF rows = <<>> THEN "no_budget_none" ELSE "no_budget_list",
                      items |-> rows, diff |-> NaN] :
                         rows \in cheapest_metros(df, ChatLimit, state, FALSE)}
               ELSE {[kind |-> IF rows = <<>> THEN "budget_none" ELSE "budget_list",
                      items |-> head(rows, 10), diff |-> NaN] :
                         rows \in filter_by_budget(df, budget[1], state, NoTrend, FALSE)}

\* the query function the branch calls
BranchQuery(branch, message) ==
    CASE branch = "compare" -> "compare_metros"
      [] branch = "growth" -> "best_rent_growth"
      [] branch = "cheapest" -> "cheapest_metros"
      [] branch = "most_expensive" -> "most_expensive_metros"
      [] branch = "budget" -> IF _parse_budget(message) = NoBudget
                              THEN "cheapest_metros" ELSE "filter_by_budget"

ChatOutcomes(cache, log, f, message) ==
    LET state == IF message # <<>> /\ ~_is_greeting(message)
                    /\ _is_relocation_related(message)
                 THEN _parse_state(message) ELSE NoState
        \* 4) available_states() inside try/except Exception
        L1 == IF state # NoState THEN load_data(cache, log, f)
              ELSE [raised |-> FALSE, log |-> log, cache |-> cache]
        swallowed == state # NoState /\ L1.raised
        states_in_data == IF state # NoState /\ ~L1.raised
                          THEN available_states(L1.cache) ELSE {}
        branch == Route(message, states_in_data)
        calls1 == IF state # NoState THEN <<"available_states">> ELSE <<>>
        base == [op |-> "chat", message |-> message, branch |-> branch,
                 state |-> state, swallowed |-> swallowed,
                 states |-> states_in_data]
    IN  IF branch \in {"empty", "greeting", "off_topic"}
        THEN {[cache |-> cache, log |-> log,
               reply |-> base @@ [raised |-> FALSE, kind |-> branch, items |-> <<>>,
                                  diff |-> NaN, calls |-> <<>>]]}
        ELSE IF branch = "state_check"
        THEN {[cache |-> L1.cache, log |-> L1.log,
               reply |-> base @@ [raised |-> FALSE, kind |-> "state_not_found",
                                  items |-> <<>>, diff |-> NaN,
                                  calls |-> calls1]]}
        ELSE LET L2 == load_data(L1.cache, L1.log, f)
                 calls == Append(calls1, BranchQuery(branch, message))
             IN  IF L2.raised
                 THEN {[cache |-> L2.cache, log |-> L2.log,
                        reply |-> base @@ [raised |-> TRUE, kind |-> "exception",
                                           items |-> <<>>, diff |-> NaN,
                                           calls |-> calls]]}
                 ELSE {[cache |-> CacheAfterQuery(L2.cache, r.items), log |-> L2.log,
                        reply |-> base @@ [raised |-> FALSE, kind |-> r.kind,
                                           items |-> r.items, diff |-> r.diff,
                                           calls |-> calls]] :
                          r \in BranchReplies(branch, message, state, L2.cache)}

(***************************************************************************)
(* The chat front end: app.respond hands every submitted message to chat   *)
(* and puts the reply into the history.                                    *)
(***************************************************************************)
ChatVocab ==
    {"hi", "rent", "compare", "and", "cheapest", "priciest", "up-and-coming",
     "TX", "NY", "2500", "Austin"}

Messages == SeqsUpTo(ChatVocab, MaxTokens)

\* one metro whose rent fell over three years and rose over five
ChatRowU ==
    {[City |-> <<"Austin">>, StateName |-> "TX", Current_Rent |-> Num(1500),
      Avg2022 |-> Num(2000), Avg2021 |-> Num(800)]}

\* chat reads the file at most twice
CanChat == _DATA_CACHE # None \/ Len(readLog) + 2 <= MaxReads

\* app.respond: the user submits some message and chat answers it
Chat ==
    /\ reply = NoCall /\ CanChat
    /\ \E message \in Messages :
          \E o \in ChatOutcomes(_DATA_CACHE, readLog, file, message) :
              /\ _DATA_CACHE' = o.cache
              /\ readLog' = o.log
              /\ reply' = o.reply
    /\ UNCHANGED <<threads, file, ret, retCheap, retExp>>

\* respond() appends the reply to the history (or the exception leaves it)
Deliver ==
    /\ reply # NoCall
    /\ reply' = NoCall
    /\ UNCHANGED <<threads, file, _DATA_CACHE, readLog, ret, retCheap, retExp>>

InitChat ==
    /\ file \in [exists : {TRUE}, columns : {AllColumns},
                  rows : SeqsUpTo(ChatRowU, ChatMaxRows)]
    /\ _DATA_CACHE = None
    /\ readLog = <<>>
    /\ ret = NoCall
    /\ retCheap = NoCall
    /\ retExp = NoCall
    /\ reply = NoCall
    /\ threads = NoThreads

NextChat ==
    \/ Chat
    \/ Deliver
    \/ DeleteFile

SpecChat == InitChat /\ [][NextChat]_vars

(***************************************************************************)
(* Claims about chat, checked under SpecChat.                              *)
(***************************************************************************)
Replied == reply # NoCall /\ reply.op = "chat"

RoutingOrder ==
    <<"empty", "greeting", "off_topic", "state_check", "compare", "growth",
      "cheapest", "most_expensive", "budget">>

\* the states the data set offers, as chat's validation step sees them
StatesSeen == IF _DATA_CACHE = None THEN {} ELSE available_states(_DATA_CACHE)

\* the condition that guards branch b in chat, on message m
Guard(b, m) ==
    CASE b = "empty" -> m = <<>>
      [] b = "greeting" -> _is_greeting(m)
      [] b = "off_topic" -> ~_is_relocation_related(m)
      [] b = "state_check" -> StateMissing(_parse_state(m), StatesSeen)
      [] b = "compare" -> _parse_compare_request(m) # NoPair
      [] b = "growth" -> _parse_growth_intent(m) # NoGrowth
      [] b = "cheapest" -> _is_cheapest_request(m)
      [] b = "most_expensive" -> _is_most_expensive_request(m)
      [] b = "budget" -> TRUE

\* the replies that belong to branch b, and the one query it may run
KindsOf(b) ==
    CASE b = "empty" -> {"empty"}
      [] b = "greeting" -> {"greeting"}
      [] b = "off_topic" -> {"off_topic"}
      [] b = "state_check" -> {"state_not_found"}
      [] b = "compare" -> {"neither_found", "one_missing", "comparison_differs",
                           "comparison_similar"}
      [] b = "growth" -> {"growth_none", "growth_list"}
      [] b = "cheapest" -> {"ranking_none", "cheapest_list"}
      [] b = "most_expensive" -> {"ranking_none", "most_expensive_list"}
      [] b = "budget" -> {"no_budget_none", "no_budget_list", "budget_none",
                          "budget_list"}

QueriesOf(b) ==
    CASE b = "compare" -> {"compare_metros"}
      [] b = "growth" -> {"best_rent_growth"}
      [] b = "cheapest" -> {"cheapest_metros"}
      [] b = "most_expensive" -> {"most_expensive_metros"}
      [] b = "budget" -> {"cheapest_metros", "filter_by_budget"}
      [] OTHER -> {}

\* C1: chat answers through exactly one branch, the first in the order
\* empty, greeting, off-topic, state check, comparison, growth, cheapest,
\* most expensive, budget whose condition the message satisfies: the reply
\* is one of that branch's replies (or the load error its query raised), and
\* beside the validation step's available_states no query but that
\* branch's own is executed, and at most once.
C1_FirstMatchWins ==
    Replied =>
        \E i \in 1..Len(RoutingOrder) :
            /\ reply.branch = RoutingOrder[i]
            /\ Guard(RoutingOrder[i], reply.message)
            /\ \A j \in 1..(i - 1) : ~Guard(RoutingOrder[j], reply.message)
            /\ reply.kind \in KindsOf(RoutingOrder[i]) \cup {"exception"}
            /\ LET run == SelectSeq(reply.calls, LAMBDA q : q # "available_states")
               IN  /\ Len(run) <= 1
                   /\ \A k \in 1..Len(run) : run[k] \in QueriesOf(RoutingOrder[i])

\* a message asking both for growth and for the cheapest metros was
\* answered by the growth branch with a list
C1_Witness ==
    /\ Replied
    /\ _parse_growth_intent(reply.message) # NoGrowth
    /\ _is_cheapest_request(reply.message)
    /\ reply.branch = "growth"
    /\ reply.kind = "growth_list"
    /\ reply.calls = <<"best_rent_growth">>

\* no row of the loaded table has a positive change over the horizon
NoPositiveChange(horizon) ==
    \A i \in 1..Len(LoadedRows) :
        LET p == Cell(LoadedRows[i], GrowthCol(horizon))
        IN  IsNa(p) \/ ~PctGt(p, 0)

\* C9: a growth request with direction 'up' against a data set in which no
\* row has a positive change for the horizon is answered with the "couldn't
\* find metros matching that growth pattern" message and lists no metro.
C9_NoRisingMetroNotFound ==
    (/\ Replied /\ ~reply.raised /\ reply.branch = "growth"
     /\ _parse_growth_intent(reply.message)[2] = "up"
     /\ NoPositiveChange(_parse_growth_intent(reply.message)[1]))
        => (reply.kind = "growth_none" /\ reply.items = <<>>)

FailedReads == Len(SelectSeq(readLog, LAMBDA r : r = "fail"))

\* C10: a load failure reaches the caller of the operation that needed the
\* data (no caller swallows it) and the read is not attempted again after
\* it has failed, within one chat message or across later operations.
C10_LoadFailureSurfacedOnce ==
    /\ FailedReads <= 1
    /\ (Replied => ~reply.swallowed)

\* the queries of the branches, which the validation step's own
\* available_states is not one of
BranchCalls == SelectSeq(reply.calls, LAMBDA q : q # "available_states")

\* C11: a relocation-related, non-greeting message in which a state code is
\* recognized that is not among the loaded data set's state codes is
\* answered with the "state not found" message and runs no comparison,
\* growth, cheapest, most-expensive or budget query, whatever the data set,
\* one without any state code included.
C11_UnknownStateShortCircuits ==
    (/\ Replied /\ _DATA_CACHE # None
     /\ reply.message # <<>> /\ ~_is_greeting(reply.message)
     /\ _is_relocation_related(reply.message)
     /\ _parse_state(reply.message) # NoState
     /\ _parse_state(reply.message) \notin StatesSeen)
        => (reply.kind = "state_not_found" /\ BranchCalls = <<>>)

(***************************************************************************)
(* Budget extraction: _parse_budget on its own and inside chat, over       *)
(* messages that carry several numerals, in and out of the plausible       *)
(* range, written with and without "$" and ",".                            *)
(***************************************************************************)
BudgetVocab == {"rent", "cheapest", "$2,500", "$1,800", "100", "25000", "5-year"}

BudgetMessages == SeqsUpTo(BudgetVocab, BudgetMaxWords)

ParseBudget ==
    /\ ret = NoCall /\ reply = NoCall
    /\ \E text \in BudgetMessages :
          ret' = [op |-> "_parse_budget", raised |-> FALSE, text |-> text,
                  value |-> _parse_budget(text)]
    /\ UNCHANGED <<threads, file, _DATA_CACHE, readLog, retCheap, retExp, reply>>

ChatBudget ==
    /\ ret = NoCall /\ reply = NoCall
    /\ \E message \in BudgetMessages :
          \E o \in ChatOutcomes(_DATA_CACHE, readLog, file, message) :
              /\ _DATA_CACHE' = o.cache
              /\ readLog' = o.log
              /\ reply' = o.reply
    /\ UNCHANGED <<threads, file, ret, retCheap, retExp>>

NextBudget == ParseBudget \/ ChatBudget \/ Return \/ Deliver

SpecBudget == InitChat /\ [][NextBudget]_vars

\* the numerals of a text that lie in the plausible monthly-rent range
Plausible(nums) == {i \in 1..Len(nums) : 300 <= nums[i] /\ nums[i] <= 20000}

\* C12: over the numerals found in a message, budget extraction gives the
\* first numeral in [300, 20000] when there is one, otherwise the first
\* numeral, otherwise no budget; and a message without a numeral that
\* reaches the default branch gets the cheapest-list fallback from
\* cheapest_metros, the budget filter not being called, while one with a
\* numeral gets the budget filter and no other query.
C12_BudgetExtraction ==
    /\ ret.op = "_parse_budget" =>
          LET nums == NumeralsIn(ret.text)
          IN  /\ nums = <<>> => ret.value = NoBudget
              /\ Plausible(nums) # {} =>
                    \E i \in Plausible(nums) :
                        /\ \A j \in Plausible(nums) : i <= j
                        /\ ret.value = <<nums[i]>>
              /\ (nums # <<>> /\ Plausible(nums) = {}) => ret.value = <<nums[1]>>
    /\ (Replied /\ reply.branch = "budget") =>
          IF NumeralsIn(reply.message) = <<>>
          THEN /\ reply.kind \in {"no_budget_list", "no_budget_none"}
               /\ BranchCalls = <<"cheapest_metros">>
          ELSE /\ reply.kind \in {"budget_list", "budget_none"}
               /\ BranchCalls = <<"filter_by_budget">>

\* a text whose first numeral is below the range and whose later numeral
\* is inside it gave the later one
C12_Witness ==
    /\ ret.op = "_parse_budget"
    /\ Len(NumeralsIn(ret.text)) >= 2
    /\ NumeralsIn(ret.text)[1] = 100
    /\ ret.value = <<1800>>

(***************************************************************************)
(* State extraction: _parse_state over messages with "in", two-letter      *)
(* words in upper, lower and mixed case, and longer words.                 *)
(***************************************************************************)
StateVocab == {"in", "IN", "me", "ME", "Me", "tx", "my", "show", "Portland"}

StateMessages == SeqsUpTo(StateVocab, StateMaxWords)

ParseState ==
    /\ ret = NoCall
    /\ \E text \in StateMessages :
          ret' = [op |-> "_parse_state", raised |-> FALSE, text |-> text,
                  value |-> _parse_state(text)]
    /\ UNCHANGED <<threads, file, _DATA_CACHE, readLog, retCheap, retExp, reply>>

NextState == ParseState \/ Return

SpecState == InitChat /\ [][NextState]_vars

\* the places of a text where "in", in any case, is followed by a
\* two-letter word
InPlaces(text) ==
    {i \in 1..(Len(text) - 1) :
        Lower(text[i]) = "in" /\ text[i + 1] \in TwoLetterWords}

\* tier (a): the word after the first "in <two letters>", upper-cased, when
\* it is one of the 50 states
TierA(text) ==
    IF InPlaces(text) = {} THEN NoState
    ELSE LET i == CHOOSE k \in InPlaces(text) : \A j \in InPlaces(text) : k <= j
         IN  IF Upper(text[i + 1]) \in _US_STATES THEN Upper(text[i + 1]) ELSE NoState

\* tier (b): the first word that is a state code written in capitals
TierB(text) ==
    LET caps == {i \in 1..Len(text) : text[i] \in _US_STATES}
    IN  IF caps = {} THEN NoState
        ELSE text[CHOOSE k \in caps : \A j \in caps : k <= j]

\* C13: state extraction gives tier (a)'s state when the first "in <two
\* letters>" names one of the 50 states, otherwise tier (b)'s first
\* capitalised state code, otherwise no state; so whatever it returns is
\* one of the 50 states that the text either holds in capitals or holds in
\* any case right after "in", and a lowercase word not preceded by "in" is
\* never returned.
C13_StateExtraction ==
    ret.op = "_parse_state" =>
        LET text == ret.text
        IN  /\ ret.value = (IF TierA(text) # NoState THEN TierA(text) ELSE TierB(text))
            /\ ret.value # NoState =>
                  /\ ret.value \in _US_STATES
                  /\ \E i \in 1..Len(text) :
                        \/ text[i] = ret.value
                        \/ /\ i > 1 /\ Lower(text[i - 1]) = "in"
                           /\ Upper(text[i]) = ret.value

\* a capitalised state code came first and "in tx" later: tier (a) won
C13_Witness ==
    /\ ret.op = "_parse_state"
    /\ ret.text = <<"ME", "in", "tx">>
    /\ ret.value = "TX"

\* the message carries the keyword of a comparison, growth, cheapest or
\* most-expensive request
IntentRecognized(m) ==
    \/ _parse_compare_request(m) # NoPair
    \/ _parse_growth_intent(m) # NoGrowth
    \/ _is_cheapest_request(m)
    \/ _is_most_expensive_request(m)

\* C14: a message in which a comparison, growth, cheapest or most-expensive
\* intent is recognized never receives the fallback-help text, which is
\* for unrecognized and off-topic messages only.
C14_RecognizedIntentNeverGetsHelp ==
    (Replied /\ IntentRecognized(reply.message)) => reply.kind # "off_topic"

(***************************************************************************)
(* Comparison: compare_metros called directly and through chat's compare   *)
(* branch, over data sets in which one metro's name is part of another's.  *)
(***************************************************************************)
CompareRowU ==
    [City : {<<"Austin">>, <<"Austin", "Lakes">>}, StateName : {"TX"},
     Current_Rent : {Num(900), Num(1500)}, Avg2022 : {Num(1000)},
     Avg2021 : {Num(800)}]

CompareQueries == {<<"Austin">>, <<"austin">>, <<"Lakes">>, <<"Dallas">>}

InitCompare ==
    /\ file \in [exists : {TRUE}, columns : {AllColumns},
                  rows : SeqsUpTo(CompareRowU, CompareMaxRows)]
    /\ _DATA_CACHE = None
    /\ readLog = <<>>
    /\ ret = NoCall
    /\ retCheap = NoCall
    /\ retExp = NoCall
    /\ reply = NoCall
    /\ threads = NoThreads

\* the user asks "compare <a> and <b>"
ChatCompare ==
    /\ ret = NoCall /\ reply = NoCall
    /\ \E a \in CompareQueries, b \in CompareQueries :
          \E o \in ChatOutcomes(_DATA_CACHE, readLog, file,
                                <<"compare">> \o a \o <<"and">> \o b) :
              /\ _DATA_CACHE' = o.cache
              /\ readLog' = o.log
              /\ reply' = o.reply
    /\ UNCHANGED <<threads, file, ret, retCheap, retExp>>

NextCompare ==
    \/ reply = NoCall /\ \E a \in CompareQueries, b \in CompareQueries : CompareMetros(a, b)
    \/ ChatCompare
    \/ Return
    \/ Deliver

SpecCompare == InitCompare /\ [][NextCompare]_vars

\* the row a name resolves to: the first row whose name equals it, case
\* ignored; failing that, the first row whose name contains it, case
\* ignored; failing that, None
Resolve(rows, name) ==
    LET same == {i \in 1..Len(rows) : LowerSeq(rows[i].RegionName) = LowerSeq(name)}
        part == {i \in 1..Len(rows) :
                    Contains(LowerSeq(rows[i].RegionName), LowerSeq(name))}
    IN  IF same # {} THEN rows[CHOOSE i \in same : \A j \in same : i <= j]
        ELSE IF part # {} THEN rows[CHOOSE i \in part : \A j \in part : i <= j]
        ELSE None

Threads == 1..NumThreads

ThreadRowU ==
    [City : {<<"Austin">>}, StateName : {"TX"},
     Current_Rent : {Num(900), TextCell}, Avg2022 : {Num(1000)},
     Avg2021 : {Num(800)}]

NoFrame == [id |-> 0, columns |-> {}, rows |-> <<>>]

InitThreads ==
    /\ file \in [exists : {TRUE}, columns : {AllColumns},
                  rows : SeqsUpTo(ThreadRowU, ThreadMaxRows)]
    /\ _DATA_CACHE = None
    /\ readLog = <<>>
    /\ ret = NoCall
    /\ retCheap = NoCall
    /\ retExp = NoCall
    /\ reply = NoCall
    /\ threads = [t \in Threads |-> [pc |-> "check", df |-> NoFrame, result |-> None]]

\* the statements that store the local frame into the global
Publishes_after_read(pc) == pc \in {"read", "store"}

Publishes(pc) == pc = "store"

\* thread t executes the statement it is at, which leaves df in its local
\* frame, and moves to pc; the frame is stored if the statement stores
Advance(t, pc, df) ==
    /\ threads' = [threads EXCEPT ![t].pc = pc, ![t].df = df]
    /\ _DATA_CACHE' = IF Publishes(threads[t].pc) THEN df ELSE _DATA_CACHE

\* if _DATA_CACHE is None:
CheckCache(t) ==
    /\ threads[t].pc = "check"
    /\ threads' = [threads EXCEPT ![t].pc =
                       IF _DATA_CACHE = None THEN "read" ELSE "return"]
    /\ UNCHANGED <<file, _DATA_CACHE, readLog, ret, retCheap, retExp, reply>>

\* df = pd.read_csv(_get_data_path())
ReadCsv(t) ==
    /\ threads[t].pc = "read" /\ file.exists
    /\ readLog' = Append(readLog, "ok")
    /\ Advance(t, "rename", [id |-> Len(readLog) + 1, columns |-> file.columns,
                             rows |-> file.rows])
    /\ UNCHANGED <<file, ret, retCheap, retExp, reply>>

\* df = df.rename(columns=...)
Rename(t) ==
    /\ threads[t].pc = "rename"
    /\ Advance(t, "coerce",
               [threads[t].df EXCEPT !.columns = {RenameColumn(c) : c \in @}])
    /\ UNCHANGED <<file, readLog, ret, retCheap, retExp, reply>>

\* df[col] = pd.to_numeric(df[col], errors="coerce") for the rent columns
Coerce(t) ==
    /\ threads[t].pc = "coerce"
    /\ Advance(t, "grow",
               [id |-> threads[t].df.id, columns |-> ReadFrame(file).columns,
                rows |-> ReadFrame(file).rows])
    /\ UNCHANGED <<file, readLog, ret, retCheap, retExp, reply>>

\* df = _compute_growth_columns(df)
ComputeGrowth(t) ==
    /\ threads[t].pc = "grow"
    /\ Advance(t, "store",
               LET g == _compute_growth_columns(
                            [columns |-> threads[t].df.columns,
                             rows |-> threads[t].df.rows])
               IN  [id |-> threads[t].df.id, columns |-> g.columns, rows |-> g.rows])
    /\ UNCHANGED <<file, readLog, ret, retCheap, retExp, reply>>

\* _DATA_CACHE = df
StoreCache(t) ==
    /\ threads[t].pc = "store"
    /\ Advance(t, "return", threads[t].df)
    /\ UNCHANGED <<file, readLog, ret, retCheap, retExp, reply>>

\* return _DATA_CACHE
ReturnCache(t) ==
    /\ threads[t].pc = "return"
    /\ threads' = [threads EXCEPT ![t].pc = "done", ![t].result = _DATA_CACHE]
    /\ UNCHANGED <<file, _DATA_CACHE, readLog, ret, retCheap, retExp, reply>>

NextThreads ==
    \E t \in Threads :
        \/ CheckCache(t)
        \/ ReadCsv(t)
        \/ Rename(t)
        \/ Coerce(t)
        \/ ComputeGrowth(t)
        \/ StoreCache(t)
        \/ ReturnCache(t)

SpecThreads == InitThreads /\ [][NextThreads]_vars

\* x is a table as load_data builds it from the file: renamed, coerced and
\* with the growth columns
FullyBuilt(x) == x # None /\ x = BuildTable(file, x.id)

\* C16: with several threads inside load_data at once the file may be read
\* more than once, but the cache is either empty or a fully renamed,
\* coerced and growth-augmented table, a thread that found the cache
\* filled is handed such a table, and every thread that has returned has
\* returned such a table.
C16_NoPartialTable ==
    /\ _DATA_CACHE = None \/ FullyBuilt(_DATA_CACHE)
    /\ \A t \in Threads :
          /\ threads[t].pc = "return" => FullyBuilt(_DATA_CACHE)
          /\ threads[t].pc = "done" => FullyBuilt(threads[t].result)

\* two threads both found the cache empty, the file was read twice, and
\* both have returned a table
C16_Witness ==
    /\ Len(readLog) >= 2
    /\ \A t \in Threads : threads[t].pc = "done" /\ FullyBuilt(threads[t].result)
    /\ \E t \in Threads : Len(threads[t].result.rows) >= 1

====
